---- MODULE Spec2Model ----
(***************************************************************************)
(* A model of lochash, an n-dimensional location hash.                     *)
(*                                                                         *)
(* The model follows the composite-key LocationHash                        *)
(* (include/lochash/location_hash.hpp, second definition), whose bucket    *)
(* map is keyed by QuantizedCoordinate, together with the range/distance   *)
(* enumerators and the two query helpers.                                  *)
(*                                                                         *)
(* Coordinates.  A coordinate is held in fixed point: the integer c stands *)
(* for the value c / Scale.  With CoordinateType = "int" only multiples of *)
(* Scale occur; with CoordinateType = "float" every c is a value.  All     *)
(* arithmetic on the modelled values is exact.                             *)
(*                                                                         *)
(* Points are tuples, one coordinate per dimension; the operators take the *)
(* number of dimensions from the tuple, as the templates take it from      *)
(* std::array<CoordinateType, Dimensions>.                                 *)
(***************************************************************************)
EXTENDS Integers, Sequences, FiniteSets, TLC

VARIABLES
    build,   \* template instantiation and target: see Builds
    data_,   \* LocationHash::data_ : QuantizedCoordinate -> BucketContent
    prev,    \* data_ as it was when the last call started
    last,    \* the last call: its name, arguments and return value
    before   \* the call that the last call followed at once, if it did

vars == <<build, data_, prev, last, before>>

---------------------------------------------------------------------------
(* Template parameters and bounds *)

\* template parameter Precision (a power of two): the edge of a grid cell
Precision == 2

\* fixed-point resolution of the modelled coordinates: c stands for c / Scale
Scale == 2

\* size_t and ssize_t are modelled WordBits wide
WordBits == 16

\* no call is made that would leave more than MaxEntries entries stored
MaxEntries == 2

\* ... except where a payload with a radius is followed across the corner of
\* four cells of a two-dimensional index: no such call is made that would
\* leave more than MaxOverlap entries stored
MaxOverlap == 4

SizeModulus == 2 ^ WordBits

\* the payload pointers: nullptr, which add(coordinates) stores, and the
\* address of one object of the caller, which the calls that take an
\* ObjectType * are given
nullptr == "nullptr"
obj1 == "obj1"
Objects == {obj1}

\* the addresses of two objects, for the calls whose results are told apart
\* by payload
obj2 == "obj2"
Objects2 == {obj1, obj2}

\* CoordinateType is integral or floating point.  For a floating-point type
\* static_cast<size_t> of a value <= -1 is undefined: neg_cast is what the
\* target's conversion yields there: "wrap" (the truncated value modulo
\* 2^WordBits), "zero" (a saturating conversion) or "ones" (all bits set).
Builds ==
    {[CoordinateType |-> "int", neg_cast |-> "wrap"]}
    \cup {[CoordinateType |-> "float", neg_cast |-> n] : n \in {"wrap", "zero", "ones"}}

IsWhole(c) == c % Scale = 0

\* the coordinate values the calls draw from: -1, -1/Scale, 1 + 1/Scale, Precision
AllCoords == {-Scale, -1, Scale + 1, Scale * Precision}

Coords(b) ==
    IF b.CoordinateType = "int" THEN {c \in AllCoords : IsWhole(c)} ELSE AllCoords

\* radii: 0, (Scale \div 2) / Scale, Precision
AllRadii == {0, Scale \div 2, Scale * Precision}

Radii(b) ==
    IF b.CoordinateType = "int" THEN {r \in AllRadii : IsWhole(r)} ELSE AllRadii

\* the values quantize_value is called with by itself: every multiple of
\* 1/Scale from -2 * Precision to 2 * Precision; for an integral type as wide
\* as ssize_t, its least and its greatest value; for a floating-point type,
\* two values past the greatest ssize_t that a size_t still holds
QuantizeCoords(b) ==
    LET near == (-2 * Scale * Precision)..(2 * Scale * Precision)
    IN  IF b.CoordinateType = "int"
        THEN {c \in near : IsWhole(c)}
                 \cup {-(SizeModulus \div 2) * Scale, ((SizeModulus \div 2) - 1) * Scale}
        ELSE near \cup {(SizeModulus \div 2) * Scale, (SizeModulus \div 2) * Scale + 1}

\* one-dimensional points of which some share a grid cell without being
\* equal: 0 and 1 lie in the cell of 0 with 1 + 1/Scale (and, by truncation,
\* -1/Scale)
NearPoints(b) == {<<c>> : c \in Coords(b) \cup {0, Scale}}

\* one-dimensional points for a bucket of several entries: 0 and 1 in the
\* cell of 0, Precision in the next cell
BucketPoints == {<<0>>, <<Scale>>, <<Scale * Precision>>}

\* one-dimensional points (LocationHash<Precision, CoordinateType, 1, ObjectType>)
Points(b) == {<<c>> : c \in Coords(b)}

\* two-dimensional points (LocationHash<Precision, CoordinateType, 2, ObjectType>)
\* over the coordinate values -1/Scale, 1 + 1/Scale, Precision (int: -1, Precision)
Coords2D(b) == IF b.CoordinateType = "int" THEN Coords(b) ELSE Coords(b) \ {-Scale}
Points2D(b) == {<<x, y>> : x \in Coords2D(b), y \in Coords2D(b)}

\* two-dimensional points near the corner of four cells and inside the cell
\* beyond it, with a radius that reaches across the corner from the first and
\* stays inside the cell from the second: one step of 1/Scale below and above
\* the cell boundary Precision, with radius 1/Scale (int: 1 and 2 with radius 1)
CornerCoords(b) ==
    IF b.CoordinateType = "int" THEN {Scale, 2 * Scale}
    ELSE {Scale * Precision - 1, Scale * Precision + 1}
CornerPoints(b) == {<<x, y>> : x \in CornerCoords(b), y \in CornerCoords(b)}
CornerRadii(b) == IF b.CoordinateType = "int" THEN {Scale} ELSE {1}

\* the three objects of the README's design example and where each is:
\* A and B in the cell (Precision, Precision), B further along dimension 1
\* than A, and C in the cell (3 * Precision, 2 * Precision), half a cell up
\* (README, Precision 16: A (24.4, 20.0), B (30.2, 18.1), C (50.0, 40.0))
ExampleObjects == {"A", "B", "C"}
ExamplePoint(object) ==
    CASE object = "A" -> <<Scale * Precision + 1, Scale * Precision + 2>>
      [] object = "B" -> <<Scale * Precision + 3, Scale * Precision + 1>>
      [] object = "C" -> <<3 * Scale * Precision + 1, 2 * Scale * Precision + Scale>>

\* the bounding boxes asked for: from the origin up to a corner that lies
\* between A and B in dimension 1 and level with C in dimension 2
\* (Precision 16: (0,0)..(30,40)), and up to a corner level with B
ExampleLower == <<0, 0>>
ExampleUpper == <<Scale * Precision + 2, 2 * Scale * Precision + Scale>>
ExampleUpperWide == <<Scale * Precision + 3, 2 * Scale * Precision + Scale>>

\* two-dimensional points for the single-point calls: x over -1/Scale,
\* 1 + 1/Scale, Precision (int: -1, Precision) and y over 1 + 1/Scale, Precision
PointsXY(b) ==
    {<<x, y>> : x \in Coords2D(b),
                y \in {c \in Coords(b) : c > 0}}

---------------------------------------------------------------------------
(* location_hash_algorithm.hpp *)

Abs(x) == IF x < 0 THEN -x ELSE x

\* conversion of a floating-point value to an integer, rounding toward zero
Truncate(c) == IF c >= 0 THEN c \div Scale ELSE -((-c) \div Scale)

\* static_cast<size_t>(value)
StaticCastSizeT(b, c) ==
    IF b.CoordinateType = "int"
    THEN (c \div Scale) % SizeModulus
    ELSE IF Truncate(c) >= 0 THEN Truncate(c)
         ELSE CASE b.neg_cast = "wrap" -> Truncate(c) % SizeModulus
                [] b.neg_cast = "zero" -> 0
                [] b.neg_cast = "ones" -> SizeModulus - 1

\* x & ~(Precision - 1) on an unsigned word: clears the low log2(Precision) bits
MaskLowBits(x) == x - (x % Precision)

\* the size_t taken for the result as it is
AsUnsigned(x) == x

\* conversion of a size_t to ssize_t (two's complement)
ToSigned(x) == IF x >= SizeModulus \div 2 THEN x - SizeModulus ELSE x

\* quantize_value with a conversion that rounds a floating-point value to the
\* nearest integer (halves away from zero) instead of truncating it
quantize_value_nearest(b, c) ==
    IF b.CoordinateType = "int" \/ c < 0
    THEN ToSigned(MaskLowBits(StaticCastSizeT(b, c)))
    ELSE ToSigned(MaskLowBits(((2 * c + Scale) \div (2 * Scale)) % SizeModulus))

\* quantize_value<T, Precision>(value)
quantize_value(b, c) == ToSigned(MaskLowBits(StaticCastSizeT(b, c)))

RECURSIVE ShiftLoop(_)
ShiftLoop(value) == IF value > 1 THEN 1 + ShiftLoop(value \div 2) ELSE 0

\* calculate_precision_shift<Precision>()
calculate_precision_shift == ShiftLoop(Precision)

\* (a - b) * (a - b)
squared_difference(a, c) == (a - c) * (a - c)

RECURSIVE SumSquares(_, _, _)
SumSquares(point1, point2, i) ==
    IF i > Len(point1) THEN 0
    ELSE squared_difference(point1[i], point2[i]) + SumSquares(point1, point2, i + 1)

\* calculate_distance_squared(point1, point2), in units of 1 / Scale^2
calculate_distance_squared(point1, point2) == SumSquares(point1, point2, 1)

---------------------------------------------------------------------------
(* location_hash_quantized_coordinate.hpp *)

\* QuantizedCoordinate(coordinates): the elementwise quantization
QuantizedCoordinate(b, coordinates) ==
    [i \in DOMAIN coordinates |-> quantize_value(b, coordinates[i])]

\* steps[i] with one step past the cell of max
StepsPadded(b, min_coords, max_coords) ==
    [i \in DOMAIN min_coords |->
        ((quantize_value(b, max_coords[i]) - quantize_value(b, min_coords[i]))
            \div (2 ^ calculate_precision_shift)) + 2]

\* steps[i]
Steps(b, min_coords, max_coords) ==
    [i \in DOMAIN min_coords |->
        ((quantize_value(b, max_coords[i]) - quantize_value(b, min_coords[i]))
            \div (2 ^ calculate_precision_shift)) + 1]

\* current_coords for the index vector: min + (indices[i] << precision_shift)
CurrentCoords(min_coords, indices) ==
    [i \in DOMAIN min_coords |->
        min_coords[i] + Scale * (indices[i] * (2 ^ calculate_precision_shift))]

\* the increment loop run from the last dimension down
RECURSIVE IncrementFromLast(_, _, _)
IncrementFromLast(indices, steps, i) ==
    IF indices[i] + 1 < steps[i]
    THEN [indices |-> [indices EXCEPT ![i] = @ + 1], done |-> FALSE]
    ELSE IF i = 1
         THEN [indices |-> [indices EXCEPT ![i] = 0], done |-> TRUE]
         ELSE IncrementFromLast([indices EXCEPT ![i] = 0], steps, i - 1)

\* the increment loop in which the last dimension is the fastest
IncrementIndicesLastFastest(indices, steps, i) ==
    IncrementFromLast(indices, steps, Len(indices) + 1 - i)

\* the increment loop over the index vector; dimension 1 is the fastest
RECURSIVE IncrementIndices(_, _, _)
IncrementIndices(indices, steps, i) ==
    IF indices[i] + 1 < steps[i]
    THEN [indices |-> [indices EXCEPT ![i] = @ + 1], done |-> FALSE]
    ELSE IF i = Len(indices)
         THEN [indices |-> [indices EXCEPT ![i] = 0], done |-> TRUE]
         ELSE IncrementIndices([indices EXCEPT ![i] = 0], steps, i + 1)

RECURSIVE RangeLoop(_, _, _, _, _)
RangeLoop(b, min_coords, steps, indices, quantized_coords) ==
    LET emplaced == Append(quantized_coords,
                           QuantizedCoordinate(b, CurrentCoords(min_coords, indices)))
        next == IncrementIndices(indices, steps, 1)
    IN  IF next.done THEN emplaced
        ELSE RangeLoop(b, min_coords, steps, next.indices, emplaced)

\* generate_all_quantized_coordinates_within_range(min_coords, max_coords)
generate_all_quantized_coordinates_within_range(b, min_coords, max_coords) ==
    RangeLoop(b, min_coords, Steps(b, min_coords, max_coords),
              [i \in DOMAIN min_coords |-> 0], <<>>)

\* generate_all_quantized_coordinates_within_distance(center, radius)
generate_all_quantized_coordinates_within_distance(b, center, radius) ==
    generate_all_quantized_coordinates_within_range(
        b,
        [i \in DOMAIN center |-> center[i] - radius],
        [i \in DOMAIN center |-> center[i] + radius])

---------------------------------------------------------------------------
(* location_hash.hpp: class LocationHash *)

\* an element of BucketContent: std::pair<CoordinateArray, ObjectType *>
Entry(coordinates, object) == [first |-> coordinates, second |-> object]

\* a default-constructed CoordinateMap
EmptyMap == [key \in {} |-> <<>>]

\* data_[key].emplace_back(coordinates, object): creates the bucket when absent
EmplaceBack(d, key, coordinates, object) ==
    IF key \in DOMAIN d
    THEN [d EXCEPT ![key] = Append(@, Entry(coordinates, object))]
    ELSE [k \in DOMAIN d \cup {key} |->
            IF k = key THEN <<Entry(coordinates, object)>> ELSE d[k]]

\* data_.erase(it)
EraseKey(d, key) == [k \in DOMAIN d \ {key} |-> d[k]]

\* erasing entry n by moving the last entry of the bucket into its place
EraseAtSwap(bucket, n) ==
    [i \in 1..(Len(bucket) - 1) |-> IF i = n THEN bucket[Len(bucket)] ELSE bucket[i]]

\* bucket.erase(bucket_it): the later entries move up, in order
EraseAt(bucket, n) ==
    [i \in 1..(Len(bucket) - 1) |-> IF i < n THEN bucket[i] ELSE bucket[i + 1]]

\* coordinates_match(coords1, coords2).  For a floating-point type two values
\* match unless |a - b| > epsilon(); epsilon() is below the resolution 1/Scale
\* of the modelled values, so distinct modelled values never match.
coordinates_match(b, coords1, coords2) ==
    \A i \in DOMAIN coords1 :
        IF b.CoordinateType = "float"
        THEN ~(Abs(coords1[i] - coords2[i]) > 0)
        ELSE ~(coords1[i] # coords2[i])

\* buckets_match that never finds the two keys equal
buckets_match_never(b, coords1, coords2) == FALSE

\* buckets_match(coords1, coords2)
buckets_match(b, coords1, coords2) ==
    QuantizedCoordinate(b, coords1) = QuantizedCoordinate(b, coords2)

\* the position of the first entry of the bucket whose stored point matches, or 0
FirstByCoordinates(b, bucket, coordinates) ==
    LET hits == {i \in 1..Len(bucket) : coordinates_match(b, bucket[i].first, coordinates)}
    IN  IF hits = {} THEN 0 ELSE CHOOSE i \in hits : \A j \in hits : i <= j

\* FirstByObject that takes the first entry of the bucket, whatever its payload
FirstOfBucket(bucket, object) == IF bucket = <<>> THEN 0 ELSE 1

\* the position of the first entry of the bucket whose payload is object, or 0
FirstByObject(bucket, object) ==
    LET hits == {i \in 1..Len(bucket) : bucket[i].second = object}
    IN  IF hits = {} THEN 0 ELSE CHOOSE i \in hits : \A j \in hits : i <= j

\* EraseEntryAndPrune without the test for an empty bucket
EraseEntryNoPrune(d, key, n) == [d EXCEPT ![key] = EraseAt(@, n)]

\* what is left of the map after bucket key lost its entry n: the bucket is
\* erased from the map when that was its last entry
EraseEntryAndPrune(d, key, n) ==
    IF EraseAt(d[key], n) = <<>>
    THEN EraseKey(d, key)
    ELSE [d EXCEPT ![key] = EraseAt(@, n)]

\* add(object, coordinates) that leaves out a payload the bucket already holds
add_object_unique(b, d, object, coordinates) ==
    LET key == QuantizedCoordinate(b, coordinates)
    IN  IF key \in DOMAIN d /\ FirstByObject(d[key], object) # 0
        THEN d
        ELSE EmplaceBack(d, key, coordinates, object)

\* void add(ObjectType * object, const CoordinateArray & coordinates)
add_object(b, d, object, coordinates) ==
    EmplaceBack(d, QuantizedCoordinate(b, coordinates), coordinates, object)

\* add(coordinates) keyed by the converted coordinates, their low bits not cleared
add_coordinates_unmasked(b, d, coordinates) ==
    EmplaceBack(d, [i \in DOMAIN coordinates |-> Truncate(coordinates[i])],
                coordinates, nullptr)

\* void add(const CoordinateArray & coordinates)
add_coordinates(b, d, coordinates) ==
    EmplaceBack(d, QuantizedCoordinate(b, coordinates), coordinates, nullptr)

RECURSIVE AddKeysLoop(_, _, _, _, _)
AddKeysLoop(d, keys, i, object, coordinates) ==
    IF i > Len(keys) THEN d
    ELSE AddKeysLoop(EmplaceBack(d, keys[i], coordinates, object),
                     keys, i + 1, object, coordinates)

\* std::vector<QuantizedCoordinateType> add(object, coordinates, radius)
add_radius(b, d, object, coordinates, radius) ==
    LET keys == generate_all_quantized_coordinates_within_distance(b, coordinates, radius)
    IN  [data |-> AddKeysLoop(d, keys, 1, object, coordinates), ret |-> keys]

\* const BucketContent & query(const CoordinateArray & coordinates) const
query(b, d, coordinates) ==
    LET key == QuantizedCoordinate(b, coordinates)
    IN  IF key \in DOMAIN d THEN d[key] ELSE <<>>

\* remove(coordinates) that erases the whole bucket of a matching entry
remove_coordinates_bucket(b, d, coordinates) ==
    LET key == QuantizedCoordinate(b, coordinates)
        n == IF key \in DOMAIN d THEN FirstByCoordinates(b, d[key], coordinates) ELSE 0
    IN  IF n # 0
        THEN [data |-> EraseKey(d, key), ret |-> TRUE]
        ELSE [data |-> d, ret |-> FALSE]

\* remove(coordinates) that erases every matching entry of the bucket
remove_coordinates_all(b, d, coordinates) ==
    LET key == QuantizedCoordinate(b, coordinates)
        Other(entry) == ~coordinates_match(b, entry.first, coordinates)
        n == IF key \in DOMAIN d THEN FirstByCoordinates(b, d[key], coordinates) ELSE 0
    IN  IF n # 0
        THEN [data |-> IF SelectSeq(d[key], Other) = <<>>
                       THEN EraseKey(d, key)
                       ELSE [d EXCEPT ![key] = SelectSeq(@, Other)],
              ret |-> TRUE]
        ELSE [data |-> d, ret |-> FALSE]

\* bool remove(const CoordinateArray & coordinates)
remove_coordinates(b, d, coordinates) ==
    LET key == QuantizedCoordinate(b, coordinates)
        n == IF key \in DOMAIN d THEN FirstByCoordinates(b, d[key], coordinates) ELSE 0
    IN  IF n # 0
        THEN [data |-> EraseEntryAndPrune(d, key, n), ret |-> TRUE]
        ELSE [data |-> d, ret |-> FALSE]

\* remove(object, coordinates) that takes the first entry with the payload
\* whose stored point matches the coordinates too
remove_object_at_point(b, d, object, coordinates) ==
    LET key == QuantizedCoordinate(b, coordinates)
        bucket == IF key \in DOMAIN d THEN d[key] ELSE <<>>
        hits == {i \in 1..Len(bucket) :
                    /\ bucket[i].second = object
                    /\ coordinates_match(b, bucket[i].first, coordinates)}
        n == IF hits = {} THEN 0 ELSE CHOOSE i \in hits : \A j \in hits : i <= j
    IN  IF n # 0
        THEN [data |-> EraseEntryAndPrune(d, key, n), ret |-> TRUE]
        ELSE [data |-> d, ret |-> FALSE]

\* bool remove(ObjectType * object, const CoordinateArray & coordinates)
remove_object(b, d, object, coordinates) ==
    LET key == QuantizedCoordinate(b, coordinates)
        n == IF key \in DOMAIN d THEN FirstByObject(d[key], object) ELSE 0
    IN  IF n # 0
        THEN [data |-> EraseEntryAndPrune(d, key, n), ret |-> TRUE]
        ELSE [data |-> d, ret |-> FALSE]

\* one pass of the loop over keys in remove(object, coordinates, radius)
RemoveFromKey(d, key, object) ==
    IF key \notin DOMAIN d THEN [data |-> d, removed |-> FALSE]
    ELSE LET n == FirstByObject(d[key], object)
             bucket == IF n # 0 THEN EraseAt(d[key], n) ELSE d[key]
         IN  [data |-> IF bucket = <<>> THEN EraseKey(d, key)
                       ELSE [d EXCEPT ![key] = bucket],
              removed |-> n # 0]

\* the loop over keys that ends at the first key whose bucket lost an entry
RECURSIVE RemoveKeysLoopFirst(_, _, _, _, _)
RemoveKeysLoopFirst(d, keys, i, object, removed) ==
    IF i > Len(keys) THEN [data |-> d, ret |-> removed]
    ELSE LET step == RemoveFromKey(d, keys[i], object)
         IN  IF step.removed THEN [data |-> step.data, ret |-> TRUE]
             ELSE RemoveKeysLoopFirst(step.data, keys, i + 1, object, removed)

RECURSIVE RemoveKeysLoop(_, _, _, _, _)
RemoveKeysLoop(d, keys, i, object, removed) ==
    IF i > Len(keys) THEN [data |-> d, ret |-> removed]
    ELSE LET step == RemoveFromKey(d, keys[i], object)
         IN  RemoveKeysLoop(step.data, keys, i + 1, object, removed \/ step.removed)

\* bool remove(object, coordinates, radius)
remove_radius(b, d, object, coordinates, radius) ==
    RemoveKeysLoop(d,
                   generate_all_quantized_coordinates_within_distance(b, coordinates, radius),
                   1, object, FALSE)

\* move(old, new) that adds at the new point whether or not remove found the
\* old one
move_coordinates_add_anyway(b, d, old_coordinates, new_coordinates) ==
    IF buckets_match(b, old_coordinates, new_coordinates)
    THEN [data |-> d, ret |-> FALSE]
    ELSE [data |-> add_coordinates(b, remove_coordinates(b, d, old_coordinates).data,
                                   new_coordinates),
          ret |-> remove_coordinates(b, d, old_coordinates).ret]

\* move(old, new) that, when the two keys are equal, rewrites the stored point
\* of the first matching entry to the new point
move_coordinates_restamp(b, d, old_coordinates, new_coordinates) ==
    LET key == QuantizedCoordinate(b, old_coordinates)
        n == IF key \in DOMAIN d THEN FirstByCoordinates(b, d[key], old_coordinates) ELSE 0
    IN  IF buckets_match(b, old_coordinates, new_coordinates)
        THEN [data |-> IF n = 0 THEN d
                       ELSE [d EXCEPT ![key][n].first = new_coordinates],
              ret |-> FALSE]
        ELSE IF remove_coordinates(b, d, old_coordinates).ret
             THEN [data |-> add_coordinates(b, remove_coordinates(b, d, old_coordinates).data,
                                            new_coordinates),
                   ret |-> TRUE]
             ELSE [data |-> d, ret |-> FALSE]

\* bool move(const CoordinateArray & old_coordinates, const CoordinateArray & new_coordinates)
move_coordinates(b, d, old_coordinates, new_coordinates) ==
    IF buckets_match(b, old_coordinates, new_coordinates)
    THEN [data |-> d, ret |-> FALSE]
    ELSE IF remove_coordinates(b, d, old_coordinates).ret
         THEN [data |-> add_coordinates(b, remove_coordinates(b, d, old_coordinates).data,
                                        new_coordinates),
               ret |-> TRUE]
         ELSE [data |-> d, ret |-> FALSE]

\* move(object, old, new) that adds to the map it was given, not to the map
\* that remove left
move_object_copy(b, d, object, old_coordinates, new_coordinates) ==
    IF buckets_match(b, old_coordinates, new_coordinates)
    THEN [data |-> d, ret |-> FALSE]
    ELSE IF remove_object(b, d, object, old_coordinates).ret
         THEN [data |-> add_object(b, d, object, new_coordinates), ret |-> TRUE]
         ELSE [data |-> d, ret |-> FALSE]

\* bool move(ObjectType * object, old_coordinates, new_coordinates)
move_object(b, d, object, old_coordinates, new_coordinates) ==
    IF buckets_match(b, old_coordinates, new_coordinates)
    THEN [data |-> d, ret |-> FALSE]
    ELSE IF remove_object(b, d, object, old_coordinates).ret
         THEN [data |-> add_object(b, remove_object(b, d, object, old_coordinates).data,
                                   object, new_coordinates),
               ret |-> TRUE]
         ELSE [data |-> d, ret |-> FALSE]

\* move(object, radius, old, new) without the early out
move_radius_always(b, d, object, radius, old_coordinates, new_coordinates) ==
    add_radius(b, remove_radius(b, d, object, old_coordinates, radius).data,
               object, new_coordinates, radius)

\* move(object, radius, old, new) that adds at the new point without removing
\* at the old one
move_radius_keep(b, d, object, radius, old_coordinates, new_coordinates) ==
    IF coordinates_match(b, old_coordinates, new_coordinates)
    THEN [data |-> d,
          ret |-> generate_all_quantized_coordinates_within_distance(b, old_coordinates, radius)]
    ELSE add_radius(b, d, object, new_coordinates, radius)

\* move(object, radius, old, new) that adds at the new point only if remove
\* found the payload around the old one, as the point move does
move_radius_if_removed(b, d, object, radius, old_coordinates, new_coordinates) ==
    IF coordinates_match(b, old_coordinates, new_coordinates)
    THEN [data |-> d,
          ret |-> generate_all_quantized_coordinates_within_distance(b, old_coordinates, radius)]
    ELSE IF remove_radius(b, d, object, old_coordinates, radius).ret
         THEN add_radius(b, remove_radius(b, d, object, old_coordinates, radius).data,
                         object, new_coordinates, radius)
         ELSE [data |-> d,
               ret |-> generate_all_quantized_coordinates_within_distance(
                           b, new_coordinates, radius)]

\* std::vector<QuantizedCoordinateType> move(object, radius, old_coordinates, new_coordinates)
move_radius(b, d, object, radius, old_coordinates, new_coordinates) ==
    IF coordinates_match(b, old_coordinates, new_coordinates)
    THEN [data |-> d,
          ret |-> generate_all_quantized_coordinates_within_distance(b, old_coordinates, radius)]
    ELSE add_radius(b, remove_radius(b, d, object, old_coordinates, radius).data,
                    object, new_coordinates, radius)

\* void clear()
clear(d) == EmptyMap

---------------------------------------------------------------------------
(* location_hash_query_bounding_box.hpp, location_hash_query_distance_squared.hpp *)

\* within_bounds with the upper bound left out of the range
within_bounds_value_open(coordinate, lower_bound, upper_bound) ==
    lower_bound <= coordinate /\ coordinate < upper_bound

\* detail::within_bounds(coordinate, lower_bound, upper_bound)
within_bounds_value(coordinate, lower_bound, upper_bound) ==
    lower_bound <= coordinate /\ coordinate <= upper_bound

\* within_bounds that compares the grid cells of the coordinates and of the
\* bounds instead of the values
within_bounds_by_cell(coordinates, lower_bounds, upper_bounds) ==
    \A i \in DOMAIN coordinates :
        within_bounds_value(coordinates[i] \div (Scale * Precision),
                            lower_bounds[i] \div (Scale * Precision),
                            upper_bounds[i] \div (Scale * Precision))

\* detail::within_bounds(coordinates, lower_bounds, upper_bounds)
within_bounds(coordinates, lower_bounds, upper_bounds) ==
    \A i \in DOMAIN coordinates :
        within_bounds_value(coordinates[i], lower_bounds[i], upper_bounds[i])

\* the payloads of a sequence of entries, in order
Seconds(entries) == [i \in 1..Len(entries) |-> entries[i].second]

\* the map after data_[key], which inserts an empty bucket for a key that
\* has none
MapAfterSubscript(d, key) ==
    [k \in DOMAIN d \cup {key} |-> IF k \in DOMAIN d THEN d[k] ELSE <<>>]

\* the map after data_.find(key)
MapAfterFind(d, key) == d

\* the map after the lookups of the keys, one after another
RECURSIVE MapAfterProbes(_, _, _)
MapAfterProbes(d, keys, i) ==
    IF i > Len(keys) THEN d
    ELSE MapAfterProbes(MapAfterFind(d, keys[i]), keys, i + 1)

\* the entries of the bucket at key (none when the map has no such bucket)
Find(d, key) == IF key \in DOMAIN d THEN d[key] ELSE <<>>

\* query_bounding_box that passes over a payload it has already collected
\* from the bucket of an earlier key
RECURSIVE BoxLoopUnique(_, _, _, _, _, _)
BoxLoopUnique(d, keys, i, lower_bounds, upper_bounds, result) ==
    IF i > Len(keys) THEN result
    ELSE LET Accept(entry) ==
                 /\ within_bounds(entry.first, lower_bounds, upper_bounds)
                 /\ \A n \in 1..Len(result) : result[n].second # entry.second
         IN  BoxLoopUnique(d, keys, i + 1, lower_bounds, upper_bounds,
                           result \o SelectSeq(Find(d, keys[i]), Accept))

\* the candidates query_bounding_box pushes the payload of: for each key in
\* turn, the entries of its bucket that are within the bounds, in bucket order
RECURSIVE BoxLoop(_, _, _, _, _, _)
BoxLoop(d, keys, i, lower_bounds, upper_bounds, result) ==
    IF i > Len(keys) THEN result
    ELSE LET Accept(entry) == within_bounds(entry.first, lower_bounds, upper_bounds)
         IN  BoxLoop(d, keys, i + 1, lower_bounds, upper_bounds,
                     result \o SelectSeq(Find(d, keys[i]), Accept))

\* query_bounding_box(locationHash, lower_bounds, upper_bounds)
query_bounding_box(b, d, lower_bounds, upper_bounds) ==
    Seconds(BoxLoop(d,
                    generate_all_quantized_coordinates_within_range(b, lower_bounds,
                                                                    upper_bounds),
                    1, lower_bounds, upper_bounds, <<>>))

\* the test with a distance of exactly radius rejected
within_radius_open(coordinates, center, radius) ==
    calculate_distance_squared(coordinates, center) < radius * radius

\* the test query_within_distance applies to a candidate entry
within_radius(coordinates, center, radius) ==
    calculate_distance_squared(coordinates, center) <= radius * radius

\* the candidates query_within_distance pushes the payload of.  The helper
\* looks the buckets up by the hash of the quantized coordinates of
\* center - radius .. center + radius; a key stands for its hash here (no two
\* keys of the model collide)
RECURSIVE DistanceLoop(_, _, _, _, _, _)
DistanceLoop(d, keys, i, center, radius, result) ==
    IF i > Len(keys) THEN result
    ELSE LET Accept(entry) == within_radius(entry.first, center, radius)
         IN  DistanceLoop(d, keys, i + 1, center, radius,
                          result \o SelectSeq(Find(d, keys[i]), Accept))

\* query_within_distance(locationHash, center, radius)
query_within_distance(b, d, center, radius) ==
    Seconds(DistanceLoop(d,
                         generate_all_quantized_coordinates_within_distance(b, center,
                                                                            radius),
                         1, center, radius, <<>>))

---------------------------------------------------------------------------
(* The scalar-hash LocationHash (location_hash.hpp, first definition), whose
   bucket map is keyed by generate_hash of the coordinates, with its two
   query helpers *)

\* which grid cells std::hash and hash_combine send to one and the same
\* size_t: none ("unique"); the cell of 0 and the cell of Precision in
\* dimension 1, other coordinates alike ("pair"); all cells ("all")
HashFunctions == {"unique", "pair", "all"}

HashBuilds ==
    {[CoordinateType |-> b.CoordinateType, neg_cast |-> b.neg_cast, hash |-> h] :
        b \in Builds, h \in HashFunctions}

\* the hash_combine fold over the quantized coordinates; a hash is written as
\* one cell of those that share it
HashOf(b, quantized) ==
    CASE b.hash = "unique" -> quantized
      [] b.hash = "pair" ->
            IF quantized[1] = Precision THEN [quantized EXCEPT ![1] = 0] ELSE quantized
      [] b.hash = "all" -> [i \in DOMAIN quantized |-> 0]

\* generate_hash<Precision>(coordinates)
generate_hash(b, coordinates) == HashOf(b, QuantizedCoordinate(b, coordinates))

\* generate_all_hash_keys_within_range(min_coords, max_coords): the loop of
\* the range enumerator, pushing generate_hash(current_coords)
generate_all_hash_keys_within_range(b, min_coords, max_coords) ==
    LET cells == generate_all_quantized_coordinates_within_range(b, min_coords, max_coords)
    IN  [i \in 1..Len(cells) |-> HashOf(b, cells[i])]

\* generate_all_hash_keys_within_distance(center, radius)
generate_all_hash_keys_within_distance(b, center, radius) ==
    generate_all_hash_keys_within_range(
        b,
        [i \in DOMAIN center |-> center[i] - radius],
        [i \in DOMAIN center |-> center[i] + radius])

\* void add(ObjectType * object, const CoordinateArray & coordinates)
add_object_by_hash(b, d, object, coordinates) ==
    EmplaceBack(d, generate_hash(b, coordinates), coordinates, object)

\* query_bounding_box that pushes every entry of a probed bucket
RECURSIVE BoxLoopAll(_, _, _, _, _, _)
BoxLoopAll(d, keys, i, lower_bounds, upper_bounds, result) ==
    IF i > Len(keys) THEN result
    ELSE BoxLoopAll(d, keys, i + 1, lower_bounds, upper_bounds,
                    result \o Find(d, keys[i]))

\* the loop of query_bounding_box over the hash keys
RECURSIVE BoxLoopByHash(_, _, _, _, _, _)
BoxLoopByHash(d, keys, i, lower_bounds, upper_bounds, result) ==
    IF i > Len(keys) THEN result
    ELSE LET Accept(entry) == within_bounds(entry.first, lower_bounds, upper_bounds)
         IN  BoxLoopByHash(d, keys, i + 1, lower_bounds, upper_bounds,
                           result \o SelectSeq(Find(d, keys[i]), Accept))

\* query_bounding_box(locationHash, lower_bounds, upper_bounds)
query_bounding_box_by_hash(b, d, lower_bounds, upper_bounds) ==
    Seconds(BoxLoopByHash(d,
                          generate_all_hash_keys_within_range(b, lower_bounds, upper_bounds),
                          1, lower_bounds, upper_bounds, <<>>))

\* query_within_distance(locationHash, center, radius)
query_within_distance_by_hash(b, d, center, radius) ==
    Seconds(DistanceLoop(d,
                         generate_all_hash_keys_within_distance(b, center, radius),
                         1, center, radius, <<>>))

---------------------------------------------------------------------------
(* The calls *)

RECURSIVE SumLen(_, _)
SumLen(d, keys) ==
    IF keys = {} THEN 0
    ELSE LET key == CHOOSE k \in keys : TRUE
         IN  Len(d[key]) + SumLen(d, keys \ {key})

\* the number of entries stored in the map
TotalEntries(d) == SumLen(d, DOMAIN d)

\* values of the fields of last that a call does not use
none == "none"
void == "void"

\* last between two calls
Idle == [op |-> "idle", object |-> none, p |-> <<>>, p2 |-> <<>>,
         radius |-> 0, ret |-> void]

\* before when the last call followed no other call at once
NoCall == [op |-> "idle", object |-> none, p |-> <<>>, p2 |-> <<>>, radius |-> 0,
           ret |-> void, data |-> EmptyMap]

\* a call runs to completion: the map becomes what the call leaves, and the
\* call is recorded in last with the map it started from in prev
RunWithin(bound, op, object, p, p2, radius, res) ==
    /\ TotalEntries(res.data) <= bound
    /\ data_' = res.data
    /\ prev' = data_
    /\ last' = [op |-> op, object |-> object, p |-> p, p2 |-> p2,
                radius |-> radius, ret |-> res.ret]
    /\ UNCHANGED build

Run(op, object, p, p2, radius, res) ==
    RunWithin(MaxEntries, op, object, p, p2, radius, res)

\* The index has a single owner: the owner makes a call and takes its result
\* (Resume) before the next call ...
Call(op, object, p, p2, radius, res) ==
    /\ last.op = "idle"
    /\ Run(op, object, p, p2, radius, res)
    /\ UNCHANGED before

\* ... or makes one more call at once, with no other call in between, and
\* the call it follows is kept in before with the map that call started from
CallNext(op, object, p, p2, radius, res) ==
    /\ last.op # "idle"
    /\ before.op = "idle"
    /\ Run(op, object, p, p2, radius, res)
    /\ before' = [op |-> last.op, object |-> last.object, p |-> last.p,
                  p2 |-> last.p2, radius |-> last.radius, ret |-> last.ret,
                  data |-> prev]

AddObject(object, coordinates) ==
    Call("add_object", object, coordinates, <<>>, 0,
         [data |-> add_object(build, data_, object, coordinates), ret |-> void])

AddCoordinates(coordinates) ==
    Call("add_coordinates", none, coordinates, <<>>, 0,
         [data |-> add_coordinates(build, data_, coordinates), ret |-> void])

AddRadius(object, coordinates, radius) ==
    Call("add_radius", object, coordinates, <<>>, radius,
         add_radius(build, data_, object, coordinates, radius))

Query(coordinates) ==
    Call("query", none, coordinates, <<>>, 0,
         [data |-> MapAfterFind(data_, QuantizedCoordinate(build, coordinates)),
          ret |-> query(build, data_, coordinates)])

RemoveCoordinates(coordinates) ==
    Call("remove_coordinates", none, coordinates, <<>>, 0,
         remove_coordinates(build, data_, coordinates))

RemoveObject(object, coordinates) ==
    Call("remove_object", object, coordinates, <<>>, 0,
         remove_object(build, data_, object, coordinates))

\* remove(coordinates) called at once after the last call
RemoveCoordinatesNext(coordinates) ==
    CallNext("remove_coordinates", none, coordinates, <<>>, 0,
             remove_coordinates(build, data_, coordinates))

\* remove(object, coordinates) called at once after the last call
RemoveObjectNext(object, coordinates) ==
    CallNext("remove_object", object, coordinates, <<>>, 0,
             remove_object(build, data_, object, coordinates))

RemoveRadius(object, coordinates, radius) ==
    Call("remove_radius", object, coordinates, <<>>, radius,
         remove_radius(build, data_, object, coordinates, radius))

\* remove(object, coordinates, radius) called at once after the last call
RemoveRadiusNext(object, coordinates, radius) ==
    CallNext("remove_radius", object, coordinates, <<>>, radius,
             remove_radius(build, data_, object, coordinates, radius))

\* move(object, radius, old, new) called at once after the last call
MoveRadiusNext(object, radius, old_coordinates, new_coordinates) ==
    CallNext("move_radius", object, old_coordinates, new_coordinates, radius,
             move_radius(build, data_, object, radius, old_coordinates, new_coordinates))

\* add(object, coordinates, radius) across the corner of four cells
AddRadiusWide(object, coordinates, radius) ==
    /\ last.op = "idle"
    /\ RunWithin(MaxOverlap, "add_radius", object, coordinates, <<>>, radius,
                 add_radius(build, data_, object, coordinates, radius))
    /\ UNCHANGED before

\* move(object, radius, old, new) called at once after the last call, across
\* the corner of four cells
MoveRadiusNextWide(object, radius, old_coordinates, new_coordinates) ==
    /\ last.op # "idle"
    /\ before.op = "idle"
    /\ RunWithin(MaxOverlap, "move_radius", object, old_coordinates, new_coordinates,
                 radius,
                 move_radius(build, data_, object, radius, old_coordinates,
                             new_coordinates))
    /\ before' = [op |-> last.op, object |-> last.object, p |-> last.p,
                  p2 |-> last.p2, radius |-> last.radius, ret |-> last.ret,
                  data |-> prev]

MoveCoordinates(old_coordinates, new_coordinates) ==
    Call("move_coordinates", none, old_coordinates, new_coordinates, 0,
         move_coordinates(build, data_, old_coordinates, new_coordinates))

MoveObject(object, old_coordinates, new_coordinates) ==
    Call("move_object", object, old_coordinates, new_coordinates, 0,
         move_object(build, data_, object, old_coordinates, new_coordinates))

MoveRadius(object, radius, old_coordinates, new_coordinates) ==
    Call("move_radius", object, old_coordinates, new_coordinates, radius,
         move_radius(build, data_, object, radius, old_coordinates, new_coordinates))

Clear ==
    Call("clear", none, <<>>, <<>>, 0, [data |-> clear(data_), ret |-> void])

\* lower_bounds <= upper_bounds in every dimension
Ordered(lower_bounds, upper_bounds) ==
    \A i \in DOMAIN lower_bounds : lower_bounds[i] <= upper_bounds[i]

QueryBoundingBox(lower_bounds, upper_bounds) ==
    /\ Ordered(lower_bounds, upper_bounds)
    /\ Call("query_bounding_box", none, lower_bounds, upper_bounds, 0,
            [data |-> MapAfterProbes(data_,
                                     generate_all_quantized_coordinates_within_range(
                                         build, lower_bounds, upper_bounds),
                                     1),
             ret |-> query_bounding_box(build, data_, lower_bounds, upper_bounds)])

QueryWithinDistance(center, radius) ==
    Call("query_within_distance", none, center, <<>>, radius,
         [data |-> MapAfterProbes(data_,
                                  generate_all_quantized_coordinates_within_distance(
                                      build, center, radius),
                                  1),
          ret |-> query_within_distance(build, data_, center, radius)])

\* quantize_value<T, Precision>(value), called by itself
QuantizeValue(value) ==
    Call("quantize_value", none, <<value>>, <<>>, 0,
         [data |-> data_, ret |-> quantize_value(build, value)])

\* quantize_value<T, Precision>(value) called at once after the last call
QuantizeValueNext(value) ==
    CallNext("quantize_value", none, <<value>>, <<>>, 0,
             [data |-> data_, ret |-> quantize_value(build, value)])

\* the calls on the scalar-hash LocationHash
AddObjectByHash(object, coordinates) ==
    Call("add_object", object, coordinates, <<>>, 0,
         [data |-> add_object_by_hash(build, data_, object, coordinates), ret |-> void])

QueryBoundingBoxByHash(lower_bounds, upper_bounds) ==
    /\ Ordered(lower_bounds, upper_bounds)
    /\ Call("query_bounding_box", none, lower_bounds, upper_bounds, 0,
            [data |-> data_,
             ret |-> query_bounding_box_by_hash(build, data_, lower_bounds, upper_bounds)])

QueryWithinDistanceByHash(center, radius) ==
    Call("query_within_distance", none, center, <<>>, radius,
         [data |-> data_,
          ret |-> query_within_distance_by_hash(build, data_, center, radius)])

\* add(object, coordinates) of an object of the design example that the index
\* does not hold yet, at its point
AddExample(object) ==
    /\ last.op = "idle"
    /\ \A key \in DOMAIN data_ : \A j \in 1..Len(data_[key]) : data_[key][j].second # object
    /\ RunWithin(Cardinality(ExampleObjects), "add_object", object,
                 ExamplePoint(object), <<>>, 0,
                 [data |-> add_object(build, data_, object, ExamplePoint(object)),
                  ret |-> void])
    /\ UNCHANGED before

\* query_bounding_box on the index of the design example
QueryExample(upper_bounds) ==
    /\ last.op = "idle"
    /\ RunWithin(Cardinality(ExampleObjects), "query_bounding_box", none,
                 ExampleLower, upper_bounds, 0,
                 [data |-> data_,
                  ret |-> query_bounding_box(build, data_, ExampleLower, upper_bounds)])
    /\ UNCHANGED before

\* remove(object, coordinates) of an object of the design example at its point
RemoveExample(object) ==
    /\ last.op = "idle"
    /\ RunWithin(Cardinality(ExampleObjects), "remove_object", object,
                 ExamplePoint(object), <<>>, 0,
                 remove_object(build, data_, object, ExamplePoint(object)))
    /\ UNCHANGED before

\* the single-point calls on an index that may hold one entry more than
\* MaxEntries, so that a bucket can lose one of three entries
AddObjectWide(object, coordinates) ==
    /\ last.op = "idle"
    /\ RunWithin(MaxEntries + 1, "add_object", object, coordinates, <<>>, 0,
                 [data |-> add_object(build, data_, object, coordinates), ret |-> void])
    /\ UNCHANGED before

RemoveObjectWide(object, coordinates) ==
    /\ last.op = "idle"
    /\ RunWithin(MaxEntries + 1, "remove_object", object, coordinates, <<>>, 0,
                 remove_object(build, data_, object, coordinates))
    /\ UNCHANGED before

RemoveCoordinatesWide(coordinates) ==
    /\ last.op = "idle"
    /\ RunWithin(MaxEntries + 1, "remove_coordinates", none, coordinates, <<>>, 0,
                 remove_coordinates(build, data_, coordinates))
    /\ UNCHANGED before

QueryWide(coordinates) ==
    /\ last.op = "idle"
    /\ RunWithin(MaxEntries + 1, "query", none, coordinates, <<>>, 0,
                 [data |-> MapAfterFind(data_, QuantizedCoordinate(build, coordinates)),
                  ret |-> query(build, data_, coordinates)])
    /\ UNCHANGED before

\* the owner takes the result of the last call
Resume ==
    /\ last.op # "idle"
    /\ last' = Idle
    /\ prev' = data_
    /\ before' = NoCall
    /\ UNCHANGED <<build, data_>>

\* a LocationHash is constructed empty
Init ==
    /\ build \in Builds
    /\ data_ = EmptyMap
    /\ prev = EmptyMap
    /\ last = Idle
    /\ before = NoCall

Next ==
    \/ \E object \in Objects, p \in Points(build) : AddObject(object, p)
    \/ \E p \in Points(build) : AddCoordinates(p)
    \/ \E object \in Objects, p \in Points(build), radius \in Radii(build) :
            AddRadius(object, p, radius)
    \/ \E p \in Points(build) : Query(p)
    \/ \E p \in Points(build) : RemoveCoordinates(p)
    \/ \E object \in Objects, p \in Points(build) : RemoveObject(object, p)
    \/ \E object \in Objects, p \in Points(build), radius \in Radii(build) :
            RemoveRadius(object, p, radius)
    \/ \E p \in Points(build), p2 \in Points(build) : MoveCoordinates(p, p2)
    \/ \E object \in Objects, p \in Points(build), p2 \in Points(build) :
            MoveObject(object, p, p2)
    \/ \E object \in Objects, radius \in Radii(build),
          p \in Points(build), p2 \in Points(build) :
            MoveRadius(object, radius, p, p2)
    \/ Clear
    \/ \E p \in Points(build), p2 \in Points(build) : QueryBoundingBox(p, p2)
    \/ \E p \in Points(build), radius \in Radii(build) : QueryWithinDistance(p, radius)
    \/ Resume

Spec == Init /\ [][Next]_vars

\* A two-dimensional index that is populated by add(object, coordinates) only
\* and read by the query helpers.
Next2D ==
    \/ \E object \in Objects2, p \in Points2D(build) : AddObject(object, p)
    \/ \E p \in Points2D(build), p2 \in Points2D(build) : QueryBoundingBox(p, p2)
    \/ \E p \in Points2D(build), radius \in Radii(build) : QueryWithinDistance(p, radius)
    \/ Resume

Spec2D == Init /\ [][Next2D]_vars

\* A two-dimensional index on which only the single-point calls are made.
NextPoint ==
    \/ \E object \in Objects, p \in PointsXY(build) : AddObject(object, p)
    \/ \E p \in PointsXY(build) : AddCoordinates(p)
    \/ \E p \in PointsXY(build) : Query(p)
    \/ \E p \in PointsXY(build) : RemoveCoordinates(p)
    \/ \E object \in Objects, p \in PointsXY(build) : RemoveObject(object, p)
    \/ \E p \in PointsXY(build), p2 \in PointsXY(build) : MoveCoordinates(p, p2)
    \/ \E object \in Objects, p \in PointsXY(build), p2 \in PointsXY(build) :
            MoveObject(object, p, p2)
    \/ Resume

SpecPoint == Init /\ [][NextPoint]_vars

\* A one-dimensional index on which an add may be followed at once by a remove.
NextSeq ==
    \/ \E object \in Objects, p \in Points(build) : AddObject(object, p)
    \/ \E p \in Points(build) : AddCoordinates(p)
    \/ \E p \in Points(build) : RemoveCoordinatesNext(p)
    \/ \E object \in Objects, p \in Points(build) : RemoveObjectNext(object, p)
    \/ Resume

SpecSeq == Init /\ [][NextSeq]_vars

\* A one-dimensional index on which an add with radius may be followed at once
\* by a remove or a move with radius.
NextRadius ==
    \/ \E object \in Objects, p \in Points(build) : AddObject(object, p)
    \/ \E object \in Objects, p \in Points(build), radius \in Radii(build) :
            AddRadius(object, p, radius)
    \/ \E object \in Objects, p \in Points(build), radius \in Radii(build) :
            RemoveRadiusNext(object, p, radius)
    \/ \E object \in Objects, radius \in Radii(build),
          p \in Points(build), p2 \in Points(build) :
            MoveRadiusNext(object, radius, p, p2)
    \/ Resume

SpecRadius == Init /\ [][NextRadius]_vars

\* quantize_value called by itself, once or twice in a row
\* (QuantizeValueTest, test_hash_algorithm.FloatHashing).
NextQuantize ==
    \/ \E value \in QuantizeCoords(build) : QuantizeValue(value)
    \/ \E value \in QuantizeCoords(build) : QuantizeValueNext(value)
    \/ Resume

SpecQuantize == Init /\ [][NextQuantize]_vars

\* A one-dimensional scalar-hash index, constructed empty with any of the
\* hash functions, populated by single-point add and queried by the helpers.
InitByHash ==
    /\ build \in HashBuilds
    /\ data_ = EmptyMap
    /\ prev = EmptyMap
    /\ last = Idle
    /\ before = NoCall

NextByHash ==
    \/ \E object \in Objects2, p \in Points(build) : AddObjectByHash(object, p)
    \/ \E p \in Points(build), p2 \in Points(build) : QueryBoundingBoxByHash(p, p2)
    \/ \E p \in Points(build), radius \in Radii(build) :
            QueryWithinDistanceByHash(p, radius)
    \/ Resume

SpecByHash == InitByHash /\ [][NextByHash]_vars

\* The design example of the README: a two-dimensional floating-point index
\* that takes the objects A, B and C in any order and is asked for bounding
\* boxes.
InitExample ==
    /\ build \in {b \in Builds : b.CoordinateType = "float"}
    /\ data_ = EmptyMap
    /\ prev = EmptyMap
    /\ last = Idle
    /\ before = NoCall

NextExample ==
    \/ \E object \in ExampleObjects : AddExample(object)
    \/ \E object \in ExampleObjects : RemoveExample(object)
    \/ \E upper_bounds \in {ExampleUpper, ExampleUpperWide} : QueryExample(upper_bounds)
    \/ Resume

SpecExample == InitExample /\ [][NextExample]_vars

\* A one-dimensional index without payloads on which a move may be followed
\* at once by a remove.
NextStale ==
    \/ \E p \in NearPoints(build) : AddCoordinates(p)
    \/ \E p \in NearPoints(build), p2 \in NearPoints(build) : MoveCoordinates(p, p2)
    \/ \E p \in NearPoints(build) : RemoveCoordinatesNext(p)
    \/ Resume

SpecStale == Init /\ [][NextStale]_vars

\* A one-dimensional index of two payloads whose buckets take up to
\* MaxEntries + 1 entries between them.
NextBucket ==
    \/ \E object \in Objects2, p \in BucketPoints : AddObjectWide(object, p)
    \/ \E object \in Objects2, p \in BucketPoints : RemoveObjectWide(object, p)
    \/ \E p \in BucketPoints : RemoveCoordinatesWide(p)
    \/ \E p \in BucketPoints : QueryWide(p)
    \/ Resume

SpecBucket == Init /\ [][NextBucket]_vars

\* A two-dimensional index on which a payload is added with a radius near the
\* corner of four cells and moved at once (LocationHashTest.AddObjectWithRadius).
NextCorner ==
    \/ \E object \in Objects, p \in CornerPoints(build) : AddObject(object, p)
    \/ \E object \in Objects, p \in CornerPoints(build), radius \in CornerRadii(build) :
            AddRadiusWide(object, p, radius)
    \/ \E object \in Objects, radius \in CornerRadii(build),
          p \in CornerPoints(build), p2 \in CornerPoints(build) :
            MoveRadiusNextWide(object, radius, p, p2)
    \/ Resume

SpecCorner == Init /\ [][NextCorner]_vars

---------------------------------------------------------------------------
(* The claims *)

\* every entry stored in the map
StoredEntries(d) == UNION {{d[key][i] : i \in 1..Len(d[key])} : key \in DOMAIN d}

\* the entries a query helper looks at when it is given keys: <<i, j>> is
\* entry j of the bucket found under keys[i]
Visited(d, keys) ==
    {v \in (1..Len(keys)) \X (1..MaxEntries) : v[2] <= Len(Find(d, keys[v[1]]))}
EntryAt(d, keys, v) == Find(d, keys[v[1]])[v[2]]

\* how many times object occurs in a sequence of payloads
Occurrences(payloads, object) ==
    Cardinality({n \in 1..Len(payloads) : payloads[n] = object})

\* C1: no empty bucket persists: in every state reachable from an empty index
\* by add, add with radius, remove (by point, by payload, with radius), move,
\* move with radius, clear and the queries, every key of the bucket map has a
\* bucket of at least one entry.
C1_NoEmptyBucket == \A key \in DOMAIN data_ : Len(data_[key]) >= 1

\* a remove with radius has just emptied a bucket, which is gone from the map
C1_Witness ==
    /\ last.op = "remove_radius"
    /\ last.ret = TRUE
    /\ \E key \in DOMAIN prev : Len(prev[key]) = 1 /\ key \notin DOMAIN data_

\* C2: co-location.  After any sequence of single-point add, remove and move
\* calls every stored entry lies in the bucket whose key is the elementwise
\* quantization of its stored point; so two stored points that quantize alike
\* in every dimension are in one bucket, which query returns for both.
C2_CoLocation ==
    /\ \A key \in DOMAIN data_ : \A i \in 1..Len(data_[key]) :
          /\ DOMAIN key = DOMAIN data_[key][i].first
          /\ \A dim \in DOMAIN key :
                key[dim] = quantize_value(build, data_[key][i].first[dim])
    /\ \A k1 \in DOMAIN data_, k2 \in DOMAIN data_ :
          \A i \in 1..Len(data_[k1]), j \in 1..Len(data_[k2]) :
             LET a == data_[k1][i].first
                 c == data_[k2][j].first
             IN  (\A dim \in DOMAIN a :
                      quantize_value(build, a[dim]) = quantize_value(build, c[dim]))
                 => /\ k1 = k2
                    /\ query(build, data_, a) = data_[k1]
                    /\ query(build, data_, c) = data_[k1]

\* a move has just brought a point into a bucket that holds another point
C2_Witness ==
    /\ last.op = "move_coordinates"
    /\ last.ret = TRUE
    /\ \E key \in DOMAIN data_ :
          /\ Len(data_[key]) = 2
          /\ data_[key][1].first # data_[key][2].first
          /\ data_[key][2].first = last.p2

\* the exact squared Euclidean distance of two points, in the unit
\* 1 / Scale^2, and the two exact tests of the query helpers
DistanceSquared(point, center) ==
    LET Term(dim) == (point[dim] - center[dim]) * (point[dim] - center[dim])
    IN  IF Len(point) = 1 THEN Term(1) ELSE Term(1) + Term(2)
InBox(point, lower_bounds, upper_bounds) ==
    \A dim \in DOMAIN point :
        lower_bounds[dim] <= point[dim] /\ point[dim] <= upper_bounds[dim]

\* C3: query_within_distance has no false negatives: on an index populated by
\* single-point add, for every center and every radius >= 0, every stored
\* entry whose exact squared distance to center is <= radius^2 is among the
\* entries whose payload the query returns.
C3_NoFalseNegatives ==
    last.op = "query_within_distance" =>
        \A object \in Objects2 :
            Occurrences(last.ret, object) >=
                Cardinality({s \in (DOMAIN data_) \X (1..MaxEntries) :
                    /\ s[2] <= Len(data_[s[1]])
                    /\ data_[s[1]][s[2]].second = object
                    /\ DistanceSquared(data_[s[1]][s[2]].first, last.p)
                           <= last.radius * last.radius})

\* C4: query_bounding_box applies an exact inclusive filter: every payload of
\* its result is the payload of a stored entry whose point p has
\* lower_bound[i] <= p[i] <= upper_bound[i] in every dimension i, and of the
\* entries in the buckets it looks at it returns those that pass this test (a
\* point on a bound passes) and no other.
C4_ExactInclusiveFilter ==
    last.op = "query_bounding_box" =>
        LET keys == generate_all_quantized_coordinates_within_range(build, last.p, last.p2)
            inside == {v \in Visited(data_, keys) :
                          InBox(EntryAt(data_, keys, v).first, last.p, last.p2)}
        IN  /\ \A n \in 1..Len(last.ret) :
                  \E e \in StoredEntries(data_) :
                      e.second = last.ret[n] /\ InBox(e.first, last.p, last.p2)
            /\ \A object \in Objects2 :
                  Occurrences(last.ret, object) =
                      Cardinality({v \in inside : EntryAt(data_, keys, v).second = object})

\* a bounding-box query has returned an entry that lies on the lower bound in
\* one dimension and on the upper bound in the other, and has not returned
\* an entry outside the box that it found in a bucket it looked at
C4_Witness ==
    /\ last.op = "query_bounding_box"
    /\ last.p[1] < last.p2[1]
    /\ last.p[2] < last.p2[2]
    /\ LET keys == generate_all_quantized_coordinates_within_range(build, last.p, last.p2)
       IN  \E v \in Visited(data_, keys), w \in Visited(data_, keys) :
              /\ EntryAt(data_, keys, v).first = <<last.p[1], last.p2[2]>>
              /\ ~InBox(EntryAt(data_, keys, w).first, last.p, last.p2)
              /\ EntryAt(data_, keys, v).second # EntryAt(data_, keys, w).second
              /\ last.ret = <<EntryAt(data_, keys, v).second>>

\* C5: query_within_distance accepts a candidate entry if and only if the
\* exact squared distance between its stored point and center is <= radius^2:
\* every payload of its result is the payload of a stored entry within that
\* distance, and of the entries in the buckets it looks at it returns those
\* at a distance <= radius (exactly radius included) and no other.
C5_ExactDistanceFilter ==
    last.op = "query_within_distance" =>
        LET keys == generate_all_quantized_coordinates_within_distance(build, last.p,
                                                                       last.radius)
            Near(point) == DistanceSquared(point, last.p) <= last.radius * last.radius
            inside == {v \in Visited(data_, keys) : Near(EntryAt(data_, keys, v).first)}
        IN  /\ \A n \in 1..Len(last.ret) :
                  \E e \in StoredEntries(data_) : e.second = last.ret[n] /\ Near(e.first)
            /\ \A object \in Objects2 :
                  Occurrences(last.ret, object) =
                      Cardinality({v \in inside : EntryAt(data_, keys, v).second = object})

\* a distance query has returned an entry that is exactly radius > 0 away
\* from the center, and has not returned an entry farther away that it found
\* in a bucket it looked at
C5_Witness ==
    /\ last.op = "query_within_distance"
    /\ last.radius > 0
    /\ LET keys == generate_all_quantized_coordinates_within_distance(build, last.p,
                                                                      last.radius)
       IN  \E v \in Visited(data_, keys), w \in Visited(data_, keys) :
              /\ DistanceSquared(EntryAt(data_, keys, v).first, last.p)
                     = last.radius * last.radius
              /\ DistanceSquared(EntryAt(data_, keys, w).first, last.p)
                     > last.radius * last.radius
              /\ EntryAt(data_, keys, v).second # EntryAt(data_, keys, w).second
              /\ last.ret = <<EntryAt(data_, keys, v).second>>

\* the last call is remove(p), made at once after add(p)
AddThenRemove ==
    /\ last.op = "remove_coordinates"
    /\ before.op = "add_coordinates"
    /\ before.p = last.p

\* C6 as stated: whatever the index already contains, after add(p) followed
\* at once by remove(p), query(p) is empty.
C6_AddRemoveQueryEmpty ==
    AddThenRemove => query(build, data_, last.p) = <<>>

\* C6 amended: after add(p) followed at once by remove(p), remove has returned
\* true and query(p) returns as many entries as it did before the add; when
\* the bucket of p did not exist before the add, query(p) is empty and the
\* map is what it was before the add.
C6_AddRemoveRestores ==
    AddThenRemove =>
        /\ last.ret = TRUE
        /\ Len(query(build, data_, last.p)) = Len(query(build, before.data, last.p))
        /\ query(build, before.data, last.p) = <<>>
              => query(build, data_, last.p) = <<>> /\ data_ = before.data

\* add(p) then remove(p) on an index that holds an entry, but none in the
\* bucket of p: query(p) is empty again
C6_Witness ==
    /\ AddThenRemove
    /\ before.data # EmptyMap
    /\ query(build, before.data, last.p) = <<>>
    /\ query(build, prev, last.p) = <<Entry(last.p, nullptr)>>
    /\ query(build, data_, last.p) = <<>>

\* C7 as stated: whatever the index already contains, after add(payload, p)
\* the bucket returned by query(p) holds payload exactly once.
C7_PayloadExactlyOnce ==
    last.op = "add_object" =>
        Occurrences(Seconds(query(build, data_, last.p)), last.object) = 1

\* C7 amended: after add(payload, p) the bucket returned by query(p) is the
\* bucket as it was with the entry (p, payload) appended, so it holds payload
\* once more than before: exactly once when the bucket held no entry with
\* that payload before the add.
C7_PayloadOnceMore ==
    last.op = "add_object" =>
        LET bucket == query(build, data_, last.p)
            was == query(build, prev, last.p)
        IN  /\ bucket = Append(was, Entry(last.p, last.object))
            /\ Occurrences(Seconds(bucket), last.object)
                  = Occurrences(Seconds(was), last.object) + 1
            /\ Occurrences(Seconds(was), last.object) = 0
                  => Occurrences(Seconds(bucket), last.object) = 1

\* add(payload, p) into a bucket that holds an entry without that payload:
\* the bucket holds payload once
C7_Witness ==
    /\ last.op = "add_object"
    /\ query(build, prev, last.p) # <<>>
    /\ Occurrences(Seconds(query(build, prev, last.p)), last.object) = 0
    /\ Occurrences(Seconds(query(build, data_, last.p)), last.object) = 1

\* how many entries of the bucket of point are the entry (point, object)
Copies(d, point, object) ==
    Cardinality({i \in 1..Len(query(build, d, point)) :
                     query(build, d, point)[i] = Entry(point, object)})

\* C8: add performs no deduplication.  Every add of a point (with a payload
\* or without) adds one entry to the bucket of the point, whatever the bucket
\* holds, so n adds of the same point and payload add n entries; a remove that
\* follows removes exactly one entry: of n equal entries it leaves n - 1.
C8_NoDeduplication ==
    /\ last.op \in {"add_coordinates", "add_object"} =>
          LET object == IF last.op = "add_object" THEN last.object ELSE nullptr
          IN  /\ Copies(data_, last.p, object) = Copies(prev, last.p, object) + 1
              /\ Len(query(build, data_, last.p)) = Len(query(build, prev, last.p)) + 1
              /\ TotalEntries(data_) = TotalEntries(prev) + 1
    /\ /\ last.op \in {"remove_coordinates", "remove_object"}
       /\ before.op \in {"add_coordinates", "add_object"}
       /\ before.p = last.p
       /\ before.object = last.object
       => LET object == IF last.op = "remove_object" THEN last.object ELSE nullptr
          IN  /\ last.ret = TRUE
              /\ Len(query(build, data_, last.p)) = Len(query(build, prev, last.p)) - 1
              /\ TotalEntries(data_) = TotalEntries(prev) - 1
              /\ Len(query(build, prev, last.p)) = Copies(prev, last.p, object)
                    => Copies(data_, last.p, object) = Copies(prev, last.p, object) - 1

\* the same point has been added twice and then removed once: of the two
\* equal entries one is left
C8_Witness ==
    /\ AddThenRemove
    /\ query(build, before.data, last.p) = <<Entry(last.p, nullptr)>>
    /\ query(build, prev, last.p) = <<Entry(last.p, nullptr), Entry(last.p, nullptr)>>
    /\ query(build, data_, last.p) = <<Entry(last.p, nullptr)>>

\* C9: move fast path.  Whenever old_point and new_point quantize to the same
\* bucket key (move(p, p) included), move returns false and the whole bucket
\* map is left as it was: no entry is removed, duplicated or reordered and no
\* stored coordinate is changed.
C9_MoveFastPath ==
    /\ last.op \in {"move_coordinates", "move_object"}
    /\ QuantizedCoordinate(build, last.p) = QuantizedCoordinate(build, last.p2)
    => last.ret = FALSE /\ data_ = prev

\* a move between two different points of one cell, of an entry that is
\* stored at the old point: the entry is still stored at the old point
C9_Witness ==
    /\ last.op = "move_object"
    /\ last.p # last.p2
    /\ QuantizedCoordinate(build, last.p) = QuantizedCoordinate(build, last.p2)
    /\ Entry(last.p, last.object) \in StoredEntries(prev)
    /\ Entry(last.p, last.object) \in StoredEntries(data_)
    /\ Entry(last.p2, last.object) \notin StoredEntries(data_)
    /\ last.ret = FALSE

\* C10: move across buckets.  When old_point and new_point quantize to
\* different bucket keys and the bucket of old_point holds an entry with the
\* payload, move(payload, old_point, new_point) returns true, the first such
\* entry is removed from the old bucket (the bucket is erased if that empties
\* it), the entry (new_point, payload) is appended to the bucket of new_point,
\* and every other bucket is left as it was.
C10_MoveAcrossBuckets ==
    LET old == QuantizedCoordinate(build, last.p)
        new == QuantizedCoordinate(build, last.p2)
        n == FirstByObject(Find(prev, old), last.object)
    IN  /\ last.op = "move_object"
        /\ old # new
        /\ n # 0
        => /\ last.ret = TRUE
           /\ Find(data_, old) = EraseAt(prev[old], n)
           /\ old \in DOMAIN data_ <=> Len(prev[old]) > 1
           /\ new \in DOMAIN data_
           /\ data_[new] = Append(Find(prev, new), Entry(last.p2, last.object))
           /\ \A key \in (DOMAIN prev \cup DOMAIN data_) \ {old, new} :
                 key \in DOMAIN prev /\ key \in DOMAIN data_ /\ data_[key] = prev[key]

\* a move has taken the only entry of one bucket, which is erased, to the
\* end of another bucket that held an entry
C10_Witness ==
    LET old == QuantizedCoordinate(build, last.p)
        new == QuantizedCoordinate(build, last.p2)
    IN  /\ last.op = "move_object"
        /\ last.ret = TRUE
        /\ old \in DOMAIN prev
        /\ old \notin DOMAIN data_
        /\ new \in DOMAIN prev
        /\ Len(data_[new]) = 2
        /\ data_[new][2] = Entry(last.p2, last.object)

\* C11: not-found is a value, not an error.  remove(point) when no entry of
\* the point's bucket is stored at the point, and remove(payload, point) when
\* no entry of the point's bucket has the payload, return false and leave the
\* bucket map exactly as it was; query of a point whose bucket does not exist
\* returns an empty collection.
C11_NotFound ==
    LET key == QuantizedCoordinate(build, last.p)
        bucket == Find(prev, key)
    IN  /\ /\ last.op = "remove_coordinates"
           /\ \A i \in 1..Len(bucket) : bucket[i].first # last.p
           => last.ret = FALSE /\ data_ = prev
        /\ /\ last.op = "remove_object"
           /\ \A i \in 1..Len(bucket) : bucket[i].second # last.object
           => last.ret = FALSE /\ data_ = prev
        /\ /\ last.op = "query"
           /\ key \notin DOMAIN prev
           => last.ret = <<>> /\ data_ = prev

\* remove(payload, point) has found a bucket for the point that holds an entry
\* at that very point, but none with the payload, and has returned false
C11_Witness ==
    LET key == QuantizedCoordinate(build, last.p)
    IN  /\ last.op = "remove_object"
        /\ last.ret = FALSE
        /\ key \in DOMAIN prev
        /\ prev[key] = <<Entry(last.p, nullptr)>>
        /\ data_ = prev

\* the keys of a key sequence
KeySet(keys) == {keys[i] : i \in 1..Len(keys)}

\* how many entries of the bucket under key have the payload object
PayloadCount(d, key, object) == Occurrences(Seconds(Find(d, key)), object)

\* no bucket of the map holds an entry with the payload object
Absent(d, object) == \A e \in StoredEntries(d) : e.second # object

\* C12: add_with_radius(payload, point, radius) on an index that does not yet
\* contain payload returns a key sequence K such that every bucket whose key
\* is in K exists afterwards and holds exactly one entry with the payload,
\* which pairs it with the unquantized point; buckets whose key is not in K
\* are unchanged.
C12_AddRadiusOneEntryPerKey ==
    last.op = "add_radius" /\ Absent(prev, last.object) =>
        /\ \A key \in KeySet(last.ret) :
              /\ key \in DOMAIN data_
              /\ PayloadCount(data_, key, last.object) = 1
              /\ data_[key] = Append(Find(prev, key), Entry(last.p, last.object))
        /\ \A key \in (DOMAIN prev \cup DOMAIN data_) \ KeySet(last.ret) :
              key \in DOMAIN prev /\ key \in DOMAIN data_ /\ data_[key] = prev[key]

\* the last call is remove_with_radius, made at once after add_with_radius
\* with the same payload, point and radius
AddRadiusThenRemove ==
    /\ last.op = "remove_radius"
    /\ before.op = "add_radius"
    /\ before.object = last.object
    /\ before.p = last.p
    /\ before.radius = last.radius

\* C13 as stated: add_with_radius followed at once by remove_with_radius with
\* the same arguments leaves no entry for the payload in any bucket the add
\* touched and restores the bucket map to what it was before the add.
C13_RadiusRoundTrip ==
    AddRadiusThenRemove =>
        /\ \A key \in KeySet(before.ret) : PayloadCount(data_, key, last.object) = 0
        /\ data_ = before.data

\* C13 amended: when no bucket that the add touches held an entry for the
\* payload before, add_with_radius followed at once by remove_with_radius
\* with the same arguments returns true, leaves no entry for the payload in
\* any bucket the add touched, and restores the bucket map to what it was
\* before the add (the buckets the add created are erased).
C13_FreshRadiusRoundTrip ==
    /\ AddRadiusThenRemove
    /\ \A key \in KeySet(before.ret) : PayloadCount(before.data, key, last.object) = 0
    => /\ last.ret = TRUE
       /\ \A key \in KeySet(before.ret) : PayloadCount(data_, key, last.object) = 0
       /\ data_ = before.data

\* a payload has been added with a radius > 0 at a negative fractional point,
\* into two buckets that the add created, and removed again: both are erased
C13_Witness ==
    /\ AddRadiusThenRemove
    /\ last.radius > 0
    /\ last.p[1] < 0
    /\ ~IsWhole(last.p[1])
    /\ Cardinality(KeySet(before.ret)) = 2
    /\ \A key \in KeySet(before.ret) :
          key \notin DOMAIN before.data /\ key \in DOMAIN prev /\ key \notin DOMAIN data_

\* the key sequence of the buckets that the sphere of radius around point overlaps
Overlapped(point, radius) ==
    generate_all_quantized_coordinates_within_distance(build, point, radius)

AddRadiusThenMove ==
    /\ last.op = "move_radius"
    /\ before.op = "add_radius"
    /\ before.object = last.object
    /\ before.p = last.p
    /\ before.radius = last.radius

\* the payload has an entry in exactly the buckets of the returned keys
InExactly(d, keys, object) ==
    \A key \in DOMAIN d \cup KeySet(keys) :
        PayloadCount(d, key, object) > 0 <=> key \in KeySet(keys)

HelperQuery == last.op \in {"query_bounding_box", "query_within_distance"}
ProbedKeys ==
    IF last.op = "query_bounding_box"
    THEN generate_all_quantized_coordinates_within_range(build, last.p, last.p2)
    ELSE generate_all_quantized_coordinates_within_distance(build, last.p, last.radius)
Passes(point) ==
    IF last.op = "query_bounding_box"
    THEN InBox(point, last.p, last.p2)
    ELSE DistanceSquared(point, last.p) <= last.radius * last.radius

\* the probes (positions of the probed key sequence) whose bucket holds an
\* entry of the payload that passes the filter
ProbesHolding(object) ==
    {i \in 1..Len(ProbedKeys) :
        \E e \in StoredEntries(data_) :
            /\ \E j \in 1..Len(Find(data_, ProbedKeys[i])) :
                  Find(data_, ProbedKeys[i])[j] = e
            /\ e.second = object
            /\ Passes(e.first)}

\* C16: the query helpers do not deduplicate: a payload that has at most one
\* entry in each bucket (as add_with_radius inserts it) and whose stored point
\* passes the exact filter is returned by query_bounding_box and
\* query_within_distance once per probed key whose bucket holds it, so it
\* appears more than once whenever more than one of its buckets is probed.
C16_OncePerProbedBucket ==
    HelperQuery =>
        \A object \in Objects :
            (\A key \in DOMAIN data_ : PayloadCount(data_, key, object) <= 1)
            => /\ Occurrences(last.ret, object) = Cardinality(ProbesHolding(object))
               /\ Cardinality({ProbedKeys[i] : i \in ProbesHolding(object)}) > 1
                     => Occurrences(last.ret, object) > 1

\* a payload sits with one and the same positive point in two buckets, one of which
\* is not the bucket of that point (add_with_radius put it there), and a
\* query helper that probed both buckets has returned the payload twice
C16_Witness ==
    /\ HelperQuery
    /\ \E object \in Objects, point \in Points(build) :
          /\ \A dim \in DOMAIN point : point[dim] > 0
          /\ Cardinality({key \in DOMAIN data_ :
                              data_[key] = << Entry(point, object) >>}) = 2
          /\ \E key \in DOMAIN data_ :
                /\ data_[key] = << Entry(point, object) >>
                /\ key # QuantizedCoordinate(build, point)
          /\ Cardinality({ProbedKeys[i] : i \in ProbesHolding(object)}) = 2
          /\ last.ret = <<object, object>>

\* the number of cells from the cell of min to the cell of max in dimension dim
StepCount(min_coords, max_coords, dim) ==
    ((quantize_value(build, max_coords[dim]) - quantize_value(build, min_coords[dim]))
        \div Precision) + 1

\* the cells of the range: in every dimension the cell of min and the
\* StepCount - 1 cells that follow it
CellsInRange(min_coords, max_coords) ==
    LET Cells(dim) ==
            {quantize_value(build, min_coords[dim]) + k * Precision :
                k \in 0..(StepCount(min_coords, max_coords, dim) - 1)}
    IN  IF Len(min_coords) = 1
        THEN {<<x>> : x \in Cells(1)}
        ELSE {<<x, y>> : x \in Cells(1), y \in Cells(2)}
CellCount(min_coords, max_coords) ==
    IF Len(min_coords) = 1
    THEN StepCount(min_coords, max_coords, 1)
    ELSE StepCount(min_coords, max_coords, 1) * StepCount(min_coords, max_coords, 2)

\* C17: for every min_point <= max_point (elementwise) the keys that
\* enumerate_keys_in_range returns (here to query_bounding_box, which is given
\* the two points) are as many as the product over the dimensions of
\* ((quantize(max_i) - quantize(min_i)) >> log2(precision)) + 1, are pairwise
\* distinct, and are exactly the Cartesian product of the cells from
\* quantize(min_i) on, the terminal cell quantize(max_i) included.
C17_RangeEnumeratesCells ==
    last.op = "query_bounding_box" =>
        LET keys == generate_all_quantized_coordinates_within_range(build, last.p, last.p2)
        IN  /\ Len(keys) = CellCount(last.p, last.p2)
            /\ Cardinality(KeySet(keys)) = Len(keys)
            /\ KeySet(keys) = CellsInRange(last.p, last.p2)
            /\ QuantizedCoordinate(build, last.p2) \in KeySet(keys)

\* the largest multiple of Precision that is <= the value c stands for
FloorCell(c) == Precision * (c \div (Scale * Precision))

\* C18: negative coordinates quantize toward negative infinity: for every
\* negative value v, integral or fractional, quantize_value(v) is the largest
\* multiple of Precision that is <= v, the same rule as for positive values.
C18_NegativeTowardMinusInfinity ==
    last.op = "quantize_value" /\ last.p[1] < 0 => last.ret = FloorCell(last.p[1])

\* quantize_value has been called twice in a row
QuantizedTwo == last.op = "quantize_value" /\ before.op = "quantize_value"

\* the two values lie in the same half-open interval
\* [k * Precision, (k + 1) * Precision)
SameCell(a, c) == a \div (Scale * Precision) = c \div (Scale * Precision)

\* C19: for non-negative coordinates two values quantize to the same value if
\* and only if they lie in the same half-open interval
\* [k * Precision, (k + 1) * Precision); a value exactly on a cell boundary
\* k * Precision belongs to the upper cell: it does not quantize to what a
\* smaller value quantizes to.
C19_HalfOpenCells ==
    QuantizedTwo /\ before.p[1] >= 0 /\ last.p[1] >= 0 =>
        /\ before.ret = last.ret <=> SameCell(before.p[1], last.p[1])
        /\ last.p[1] % (Scale * Precision) = 0 /\ before.p[1] < last.p[1]
              => before.ret # last.ret

\* a floating-point value one step of 1/Scale below the boundary Precision and
\* then the boundary itself have been quantized: to 0 and to Precision
C19_Witness ==
    /\ QuantizedTwo
    /\ build.CoordinateType = "float"
    /\ before.p[1] = Scale * Precision - 1
    /\ last.p[1] = Scale * Precision
    /\ before.ret = 0
    /\ last.ret = Precision

\* C20: quantize is monotonic over the whole coordinate range, negative
\* values and values on both sides of zero included: for all coordinates
\* a <= b, quantize(a) <= quantize(b).
C20_Monotonic ==
    QuantizedTwo /\ before.p[1] <= last.p[1] => before.ret <= last.ret

\* the value c stands for is in the range of ssize_t
InSignedRange(c) ==
    -(SizeModulus \div 2) * Scale <= c /\ c < (SizeModulus \div 2) * Scale

\* C20 amended: quantize is monotonic over the coordinates in the range of
\* the signed result type, negative values and values on both sides of zero
\* included: for all such a <= b, quantize(a) <= quantize(b).
C20_MonotonicInSignedRange ==
    /\ QuantizedTwo
    /\ InSignedRange(before.p[1])
    /\ InSignedRange(last.p[1])
    /\ before.p[1] <= last.p[1]
    => before.ret <= last.ret

\* a negative value and then a positive value have been quantized, to a
\* negative and to a positive multiple of Precision
C20_Witness ==
    /\ QuantizedTwo
    /\ before.p[1] < 0
    /\ last.p[1] > 0
    /\ before.ret < 0
    /\ last.ret > 0

\* ceil(a / c) for a >= 0, c > 0
CeilDiv(a, c) == (a + c - 1) \div c

\* (ceil(2 * radius / Precision) + 1) ^ D
OverlapBound(radius, dimensions) ==
    (CeilDiv(2 * radius, Scale * Precision) + 1) ^ dimensions

\* the keys of the buckets that the last call has changed or created
Written == {key \in DOMAIN data_ : Find(prev, key) # data_[key]}

\* C21: for every point, every radius >= 0 and dimensionality D the number of
\* keys that add_with_radius returns, and of buckets it writes, is at most
\* (ceil(2 * radius / precision) + 1) ^ D; so is the number of keys the
\* distance enumerator yields to query_within_distance for the same
\* arguments.
C21_OverlapBound ==
    /\ last.op = "add_radius" =>
          /\ Len(last.ret) <= OverlapBound(last.radius, Len(last.p))
          /\ Cardinality(Written) <= OverlapBound(last.radius, Len(last.p))
    /\ last.op = "query_within_distance" =>
          Len(Overlapped(last.p, last.radius)) <= OverlapBound(last.radius, Len(last.p))

\* add_with_radius with a radius > 0 has returned as many keys as the bound
\* allows, more than one, and has written as many buckets
C21_Witness ==
    /\ last.op = "add_radius"
    /\ last.radius > 0
    /\ Len(last.ret) = OverlapBound(last.radius, Len(last.p))
    /\ Len(last.ret) > 1
    /\ Cardinality(Written) = Len(last.ret)

\* the stored entries, each with its place: <<key, j>> is entry j of the
\* bucket under key
Places(d) == UNION {{<<key, j>> : j \in 1..Len(d[key])} : key \in DOMAIN d}

\* the grid cells a query helper enumerates, in order
ProbedCells ==
    IF last.op = "query_bounding_box"
    THEN generate_all_quantized_coordinates_within_range(build, last.p, last.p2)
    ELSE generate_all_quantized_coordinates_within_distance(build, last.p, last.radius)

\* how many times the helper returns object when no two cells share a key:
\* once for every enumerated cell and every stored entry of that cell that
\* has the payload and passes the exact predicate
CollisionFree(object) ==
    Cardinality({x \in (1..Len(ProbedCells)) \X Places(data_) :
                    LET entry == data_[x[2][1]][x[2][2]]
                    IN  /\ QuantizedCoordinate(build, entry.first) = ProbedCells[x[1]]
                        /\ entry.second = object
                        /\ Passes(entry.first)})

\* C22 as stated: in the scalar-hash variant a hash collision between two
\* distinct grid cells never changes the result of query_bounding_box or
\* query_within_distance: for any hash function every payload is returned as
\* many times as with collision-free keys.
C22_CollisionsNeverChangeResult ==
    HelperQuery =>
        \A object \in Objects2 : Occurrences(last.ret, object) = CollisionFree(object)

\* C22 amended: for any hash function the helpers return no false positive
\* and drop nothing: every returned payload is that of a stored entry that
\* passes the exact predicate, and every payload is returned at least as many
\* times as with collision-free keys (an accepted entry is returned once for
\* every enumerated cell whose hash is the key of its bucket, so a collision
\* may return it an extra time); with a collision-free hash it is returned
\* exactly as many times.
C22_CollisionsOnlyRepeat ==
    HelperQuery =>
        \A object \in Objects2 :
            /\ Occurrences(last.ret, object) >= CollisionFree(object)
            /\ Occurrences(last.ret, object) > 0 =>
                  \E e \in StoredEntries(data_) : e.second = object /\ Passes(e.first)
            /\ build.hash = "unique" =>
                  Occurrences(last.ret, object) = CollisionFree(object)

\* under a hash that sends the cells 0 and Precision to one key, a helper
\* that enumerated both cells has returned one payload twice, from its one
\* entry, and has not returned the payload of another entry of that bucket
\* that fails the exact predicate
C22_Witness ==
    /\ HelperQuery
    /\ build.hash = "pair"
    /\ {<<0>>, <<Precision>>} \subseteq KeySet(ProbedCells)
    /\ \E object \in Objects2, other \in Objects2 :
          /\ object # other
          /\ last.ret = <<object, object>>
          /\ CollisionFree(object) = 1
          /\ \E j \in 1..Len(Find(data_, <<0>>)) :
                /\ data_[<<0>>][j].second = other
                /\ ~Passes(data_[<<0>>][j].first)

\* the index holds A, B and C, each once: A and B in the bucket of the cell
\* (Precision, Precision), C in that of (3 * Precision, 2 * Precision)
ExampleBucketed ==
    /\ DOMAIN data_ = { <<Precision, Precision>>, <<3 * Precision, 2 * Precision>> }
    /\ KeySet(data_[<<Precision, Precision>>])
           = { Entry(ExamplePoint("A"), "A"), Entry(ExamplePoint("B"), "B") }
    /\ Len(data_[<<Precision, Precision>>]) = 2
    /\ data_[<<3 * Precision, 2 * Precision>>] = << Entry(ExamplePoint("C"), "C") >>

\* A, B and C have been added and the last call is the bounding-box query of
\* the example
ExampleQueried ==
    /\ last.op = "query_bounding_box"
    /\ last.p = ExampleLower
    /\ last.p2 = ExampleUpper
    /\ \A object \in ExampleObjects :
          \E e \in StoredEntries(data_) : e.second = object

\* C23 as stated: with A, B and C added at their points, A and B are bucketed
\* identically at (Precision, Precision) and C at (3 * Precision,
\* 2 * Precision), and the bounding-box query of the example returns {A, B}
\* and excludes C.
C23_ExampleReturnsAB ==
    ExampleQueried =>
        /\ ExampleBucketed
        /\ KeySet(last.ret) = {"A", "B"}

\* C23 amended: A and B are bucketed identically at (Precision, Precision)
\* and C at (3 * Precision, 2 * Precision); the bounding-box query of the
\* example returns A alone, because B lies beyond the upper bound in
\* dimension 1 and is rejected by the exact filter as C is; the query whose
\* upper bound is level with B returns A and B, in bucket order, and not C.
C23_ExampleReturnsA ==
    /\ ExampleQueried =>
          /\ ExampleBucketed
          /\ last.ret = <<"A">>
    /\ (ExampleBucketed /\ last.op = "query_bounding_box" /\ last.p2 = ExampleUpperWide) =>
          last.ret = Seconds(data_[<<Precision, Precision>>])

\* A, then B, then C are in the index and the bounding-box query of the
\* example has returned A alone
C23_Witness ==
    /\ ExampleQueried
    /\ ExampleBucketed
    /\ Seconds(data_[<<Precision, Precision>>]) = <<"A", "B">>
    /\ last.ret = <<"A">>

\* the last call is a point move between two different buckets and, before
\* it, the bucket of the old point held no entry it could match: none with
\* the old point (move(old, new)), none with the payload (move(object, old, new))
MoveOfAbsent ==
    /\ last.op \in {"move_coordinates", "move_object"}
    /\ QuantizedCoordinate(build, last.p) # QuantizedCoordinate(build, last.p2)
    /\ \A j \in 1..Len(Find(prev, QuantizedCoordinate(build, last.p))) :
          LET entry == prev[QuantizedCoordinate(build, last.p)][j]
          IN  IF last.op = "move_coordinates"
              THEN entry.first # last.p
              ELSE entry.second # last.object

\* C24: a move of an absent entry across buckets returns false and leaves the
\* bucket map unchanged; nothing is added at the new point.
C24_MoveOfAbsent ==
    MoveOfAbsent =>
        /\ last.ret = FALSE
        /\ data_ = prev
        /\ Find(data_, QuantizedCoordinate(build, last.p2))
              = Find(prev, QuantizedCoordinate(build, last.p2))
        /\ Entry(last.p2, IF last.op = "move_object" THEN last.object ELSE nullptr)
              \in StoredEntries(data_)
              => Entry(last.p2, IF last.op = "move_object" THEN last.object ELSE nullptr)
                    \in StoredEntries(prev)

\* move(object, old, new) across buckets has returned false on an index whose
\* bucket of the old point holds entries, none with the payload, and that has
\* no bucket for the new point
C24_Witness ==
    /\ MoveOfAbsent
    /\ last.op = "move_object"
    /\ QuantizedCoordinate(build, last.p) \in DOMAIN prev
    /\ last.ret = FALSE
    /\ data_ = prev
    /\ QuantizedCoordinate(build, last.p2) \notin DOMAIN data_

\* the positions, in the bucket that the point of the last call selected
\* before the call, of the entries with the payload of the last call
PayloadPositions ==
    {i \in 1..Len(Find(prev, QuantizedCoordinate(build, last.p))) :
        prev[QuantizedCoordinate(build, last.p)][i].second = last.object}

\* C25: remove(payload, point) looks only in the bucket of quantize(point)
\* and removes the first entry, in bucket order, with that payload, whatever
\* its stored coordinates; the entries of every other bucket and the later
\* entries of that payload in the same bucket stay.
C25_RemoveFirstOfPayload ==
    (last.op = "remove_object" /\ PayloadPositions # {}) =>
        LET key == QuantizedCoordinate(build, last.p)
            n == CHOOSE i \in PayloadPositions : \A j \in PayloadPositions : i <= j
        IN  /\ last.ret = TRUE
            /\ Find(data_, key) = SubSeq(prev[key], 1, n - 1)
                                     \o SubSeq(prev[key], n + 1, Len(prev[key]))
            /\ \A other \in (DOMAIN prev \cup DOMAIN data_) \ {key} :
                  other \in DOMAIN prev /\ other \in DOMAIN data_
                     /\ data_[other] = prev[other]
            /\ Occurrences(Seconds(Find(data_, key)), last.object)
                  = Cardinality(PayloadPositions) - 1

\* remove(payload, point) was given the point of the second of two entries of
\* the payload in one bucket, stored at different points, and has removed the
\* first, leaving the one stored at the point it was given
C25_Witness ==
    LET key == QuantizedCoordinate(build, last.p)
    IN  /\ last.op = "remove_object"
        /\ last.ret = TRUE
        /\ Len(Find(prev, key)) = 2
        /\ PayloadPositions = {1, 2}
        /\ prev[key][1].first # last.p
        /\ prev[key][2].first = last.p
        /\ data_[key] = <<Entry(last.p, last.object)>>

\* key1 comes before key2 when the last dimension in which they differ has
\* the smaller cell in key1
KeyBefore(key1, key2) ==
    \E k \in DOMAIN key1 :
        /\ key1[k] < key2[k]
        /\ \A m \in DOMAIN key1 : m > k => key1[m] = key2[m]

\* the point of the corner example: just below the corner of the cell
\* (Precision, Precision), the radius reaching across it
\* (Precision 16: point (15,15), radius 4)
NearCorner(point, radius) ==
    \A i \in DOMAIN point :
        /\ point[i] < Scale * Precision
        /\ point[i] - radius >= 0
        /\ point[i] + radius >= Scale * Precision
        /\ point[i] + radius < 2 * Scale * Precision

\* C26: the keys that add_with_radius (and so the distance and range
\* enumerators) returns are in ascending cell order with the first dimension
\* varying fastest and the last slowest (a key is repeated only where the
\* range starts below zero); for a point just below the corner of four cells
\* and a radius across it they are (0,0), (Precision,0), (0,Precision),
\* (Precision,Precision).
C26_FirstDimensionFastest ==
    last.op = "add_radius" =>
        /\ last.ret = generate_all_quantized_coordinates_within_distance(
                          build, last.p, last.radius)
        /\ \A i \in 1..Len(last.ret), j \in 1..Len(last.ret) :
              i < j => \/ KeyBefore(last.ret[i], last.ret[j])
                       \/ /\ last.ret[i] = last.ret[j]
                          /\ \E k \in DOMAIN last.p : last.p[k] - last.radius < 0
        /\ (Len(last.p) = 2 /\ NearCorner(last.p, last.radius)) =>
              last.ret = << <<0, 0>>, <<Precision, 0>>,
                            <<0, Precision>>, <<Precision, Precision>> >>

\* add_with_radius near the corner has returned the four keys in that order
C26_Witness ==
    /\ last.op = "add_radius"
    /\ Len(last.p) = 2
    /\ NearCorner(last.p, last.radius)
    /\ last.ret = << <<0, 0>>, <<Precision, 0>>, <<0, Precision>>, <<Precision, Precision>> >>
    /\ \A i \in 1..4 : data_[last.ret[i]] = << Entry(last.p, last.object) >>

\* before the last call no bucket overlapped by (old point, radius) held an
\* entry of the payload
NothingToRemove ==
    \A i \in 1..Len(Overlapped(last.p, last.radius)) :
        \A j \in 1..Len(Find(prev, Overlapped(last.p, last.radius)[i])) :
            prev[Overlapped(last.p, last.radius)[i]][j].second # last.object

\* C27: move_with_radius with old and new not coordinate-equal adds
\* unconditionally: whether or not an entry of the payload was in a bucket
\* overlapped by (old, radius), afterwards every bucket of the returned key
\* set holds an entry (new, payload); when there was nothing to remove, the
\* index has grown by one entry per returned key.  The point move adds
\* nothing when its remove fails.
C27_MoveRadiusAddsUnconditionally ==
    /\ (last.op = "move_radius" /\ last.p # last.p2) =>
          /\ Len(last.ret) >= 1
          /\ \A key \in KeySet(last.ret) :
                /\ key \in DOMAIN data_
                /\ \E j \in 1..Len(data_[key]) : data_[key][j] = Entry(last.p2, last.object)
          /\ NothingToRemove =>
                /\ TotalEntries(data_) = TotalEntries(prev) + Len(last.ret)
                /\ \A e \in StoredEntries(prev) : e \in StoredEntries(data_)
    /\ (last.op = "move_object" /\ last.ret = FALSE) => data_ = prev

\* move_with_radius between two different points, of a payload that the index
\* did not hold, has put (new, payload) into a bucket that did not exist
C27_Witness ==
    /\ last.op = "move_radius"
    /\ last.p # last.p2
    /\ Absent(prev, last.object)
    /\ prev # EmptyMap
    /\ Len(last.ret) >= 1
    /\ \A key \in KeySet(last.ret) :
          key \notin DOMAIN prev /\ data_[key] = << Entry(last.p2, last.object) >>

\* the last call is a remove(point) that follows at once a move(p, p2) that
\* returned false, of two different points with one bucket key, on an index
\* that held an entry at p
RemoveAfterStaleMove ==
    /\ last.op = "remove_coordinates"
    /\ before.op = "move_coordinates"
    /\ before.ret = FALSE
    /\ before.p # before.p2
    /\ QuantizedCoordinate(build, before.p) = QuantizedCoordinate(build, before.p2)
    /\ Copies(before.data, before.p, nullptr) >= 1

C28_WitnessRemoved ==
    /\ RemoveAfterStaleMove
    /\ last.p = before.p
    /\ last.ret = TRUE
    /\ prev # EmptyMap
    /\ data_ = EmptyMap

\* the last call is one of the read operations
ReadCall == last.op \in {"query", "query_bounding_box", "query_within_distance"}

\* the keys that the last read operation looked up
LookedUp ==
    IF last.op = "query" THEN << QuantizedCoordinate(build, last.p) >> ELSE ProbedKeys

\* C29: query, query_bounding_box and query_within_distance never modify the
\* bucket map; a looked-up key that had no bucket has none afterwards, so no
\* empty bucket is created.
C29_ReadsLeaveIndexUnchanged ==
    ReadCall =>
        /\ data_ = prev
        /\ DOMAIN data_ = DOMAIN prev
        /\ \A key \in KeySet(LookedUp) : key \notin DOMAIN prev => key \notin DOMAIN data_
        /\ \A key \in DOMAIN data_ : data_[key] # <<>>

\* query_bounding_box has looked up a key that has a bucket and a key that
\* has none, and the index has the buckets it had
C29_Witness ==
    /\ last.op = "query_bounding_box"
    /\ \E key \in KeySet(LookedUp) : key \in DOMAIN prev
    /\ \E key \in KeySet(LookedUp) : key \notin DOMAIN prev /\ key \notin DOMAIN data_
    /\ last.ret # <<>>
    /\ data_ = prev

\* the bucket without its entry n
Without(bucket, n) == SubSeq(bucket, 1, n - 1) \o SubSeq(bucket, n + 1, Len(bucket))

\* C30: within one bucket the entries are kept in insertion order: add
\* appends at the end; a remove that succeeds deletes one entry and leaves
\* the others in their relative order; query(p) lists the bucket in that
\* order; no call changes another bucket.
C30_InsertionOrder ==
    LET key == QuantizedCoordinate(build, last.p)
        was == Find(prev, key)
        now == Find(data_, key)
    IN  /\ last.op \in {"add_object", "add_coordinates"} =>
              /\ Len(now) = Len(was) + 1
              /\ SubSeq(now, 1, Len(was)) = was
              /\ now[Len(now)].first = last.p
        /\ (last.op \in {"remove_object", "remove_coordinates"} /\ last.ret = TRUE) =>
              \E n \in 1..Len(was) : now = Without(was, n)
        /\ (last.op \in {"remove_object", "remove_coordinates"} /\ last.ret = FALSE) =>
              now = was
        /\ last.op = "query" => last.ret = now /\ now = was
        /\ last.op \in {"add_object", "add_coordinates", "remove_object",
                        "remove_coordinates", "query"} =>
              \A other \in (DOMAIN prev \cup DOMAIN data_) \ {key} :
                  Find(data_, other) = Find(prev, other)

\* a remove has taken the first of three entries of a bucket and the two
\* others, which differ, follow each other as before
C30_Witness ==
    LET key == QuantizedCoordinate(build, last.p)
    IN  /\ last.op \in {"remove_object", "remove_coordinates"}
        /\ last.ret = TRUE
        /\ Len(Find(prev, key)) = 3
        /\ prev[key][2] # prev[key][3]
        /\ data_[key] = << prev[key][2], prev[key][3] >>

====
